---- MODULE Spec2Model ----
(***************************************************************************)
(* Model of the book queue of calibre-web-automated-downloader             *)
(* (src/calibre-web-automated-downloader/src/models.rs).                   *)
(*                                                                         *)
(* BookQueue is a Mutex<BookQueueData>; every public method locks the      *)
(* mutex for its whole body, so each method is one atomic action on the    *)
(* record `data`.  Instant::now() is a monotonic, non-decreasing clock:    *)
(* `clock` is the instant it returns now, and time passes between and      *)
(* inside the methods (Tick, and the later reads inside a refresh).  The    *)
(* ingest directory belongs to an external process: a refresh finds in it  *)
(* the artifacts <ingest-dir>/<i>.epub of some set fs of identifiers,      *)
(* which is an input of that refresh.                                      *)
(*                                                                         *)
(* Spec         the queue, one method call per step                        *)
(* SpecThreads  threads calling the queue through its mutex                *)
(* SpecDownload book_manager::download_book, one mirror per step           *)
(* SpecSearch   book_manager::search_books, one page per step              *)
(* SpecInfo     book_manager::parse_book_info_page                         *)
(* SpecMetadata book_manager::extract_book_metadata                        *)
(* SpecPurge    the queue with a finished job, refreshed as time passes    *)
(* SpecWorkers  one thread adding, two threads claiming with get_next      *)
(* SpecTimeout  set_status_timeout over the range of its u64 argument      *)
(***************************************************************************)
EXTENDS Integers, FiniteSets, Sequences, TLC

(* ------------------------------ bounds --------------------------------- *)

\* hours passed to set_status_timeout range over 0..MaxHours
MaxHours == 1

\* the clock runs for MaxTick hours after instant 0
MaxTick == 1

(* ------------------------- program constants --------------------------- *)

\* models.rs:238  Duration::from_secs(hours * 3600)
SecsPerHour == 3600

(* --------------------------- value domains ----------------------------- *)

\* book identifiers handed to the queue
Ids == {"a", "b"}

\* titles carried by the records
Titles == {"Title"}

\* models.rs:15-21
QueueStatus == {"Queued", "Downloading", "Available", "Error", "Done"}

\* models.rs:38-54 (the fields the queue can tell apart: id and title)
BookInfo == [id : Ids, title : Titles]

\* sampled values of Instant::now(), in seconds since instant 0: the whole
\* hours (an age is below, equal to or above a timeout of 0 or 1 hour)
Instants == {k * SecsPerHour : k \in 0..MaxTick}

\* values of CONFIG.status_timeout (seconds) at construction
ConfigTimeouts == {h * SecsPerHour : h \in 0..MaxHours}

(* ------------------------------- state --------------------------------- *)

VARIABLES
    data,    \* BookQueueData behind the mutex
    clock,   \* the instant Instant::now() returns
    op,      \* the last queue operation called, with its arguments
    ret,     \* what that operation returned
    pc,      \* SpecThreads: where each thread is in its calls
    mutex,   \* SpecThreads: the thread that holds BookQueue::data, or 0
    download,\* SpecDownload: the run of download_book
    search,  \* SpecSearch: the run of parse_search_results
    page     \* SpecInfo: the run of parse_book_info_page

vars == <<data, clock, op, ret, pc, mutex, download, search, page>>

\* the variables of the queue
queueVars == <<data, clock, op, ret>>

\* the variables of the threads
threadVars == <<pc, mutex>>

\* the variables of the downloader and of the extractors
managerVars == <<download, search, page>>

\* a part of the system that is not running
Idle == [state |-> "idle"]

(* ----------------------------- map helpers ----------------------------- *)

\* HashMap::insert
MapInsert(m, k, v) == [x \in (DOMAIN m) \cup {k} |-> IF x = k THEN v ELSE m[x]]

\* HashMap::remove
MapRemove(m, k) == [x \in (DOMAIN m) \ {k} |-> m[x]]

\* the empty HashMap
EmptyMap == [x \in {} |-> 0]

\* Instant::duration_since (saturating)
duration_since(now, ts) == IF now >= ts THEN now - ts ELSE 0

\* instants Instant::now() may return when the last one observed was c
NowFrom(c) == {t \in Instants : t >= c}

(* --------------------------- BookQueue methods ------------------------- *)

\* BookQueue::new
new(timeout_secs) ==
    [queue             |-> {},
     status            |-> EmptyMap,
     book_data         |-> EmptyMap,
     status_timestamps |-> EmptyMap,
     status_timeout    |-> timeout_secs]

\* a status write that keeps the timestamp of a known book
update_status_internal_keeps_stamp(d, book_id, st, t) ==
    [d EXCEPT !.status = MapInsert(d.status, book_id, st),
              !.status_timestamps =
                    IF book_id \in DOMAIN d.status_timestamps
                    THEN d.status_timestamps
                    ELSE MapInsert(d.status_timestamps, book_id, t)]

\* BookQueue::update_status_internal; t is the value of Instant::now()
update_status_internal(d, book_id, st, t) ==
    [d EXCEPT !.status            = MapInsert(d.status, book_id, st),
              !.status_timestamps = MapInsert(d.status_timestamps, book_id, t)]

\* add that keeps the record of a book it already holds
add_keeps_record(d, book_id, book_data, t) ==
    LET d1 == [d  EXCEPT !.queue     = d.queue \cup {book_id}]
        d2 == IF book_id \in DOMAIN d1.book_data THEN d1
              ELSE [d1 EXCEPT !.book_data = MapInsert(d1.book_data, book_id, book_data)]
    IN  update_status_internal(d2, book_id, "Queued", t)

\* BookQueue::add
add(d, book_id, book_data, t) ==
    LET d1 == [d  EXCEPT !.queue     = d.queue \cup {book_id}]
        d2 == [d1 EXCEPT !.book_data = MapInsert(d1.book_data, book_id, book_data)]
    IN  update_status_internal(d2, book_id, "Queued", t)

\* get_next that leaves the identifier pending
get_next_keeps(d, book_id) == d

\* get_next that drops the whole job it hands out
get_next_forgets(d, book_id) ==
    [d EXCEPT !.queue             = d.queue \ {book_id},
              !.status            = MapRemove(d.status, book_id),
              !.status_timestamps = MapRemove(d.status_timestamps, book_id),
              !.book_data         = MapRemove(d.book_data, book_id)]

\* BookQueue::get_next, the queue after book_id was taken out
get_next(d, book_id) == [d EXCEPT !.queue = d.queue \ {book_id}]

\* update_status without the contains_key test
update_status_unchecked(d, book_id, st, t) ==
    update_status_internal(d, book_id, st, t)

\* BookQueue::update_status
update_status(d, book_id, st, t) ==
    IF book_id \in DOMAIN d.status
    THEN update_status_internal(d, book_id, st, t)
    ELSE d

\* first pass that does not look at the status
to_update_any_status(d, fs) ==
    {b \in DOMAIN d.status : d.status[b] \in {"Available", "Downloading"} /\ b \notin fs}

\* first pass with the existence test inverted
to_update_present(d, fs) ==
    {b \in DOMAIN d.status : d.status[b] = "Available" /\ b \in fs}

\* first pass of refresh_internal: the Available books without an artifact
to_update(d, fs) ==
    {b \in DOMAIN d.status : d.status[b] = "Available" /\ b \notin fs}

\* first pass with >= in place of >
to_remove_ge(d, now) ==
    {b \in DOMAIN d.status :
        /\ b \in DOMAIN d.status_timestamps
        /\ duration_since(now, d.status_timestamps[b]) >= d.status_timeout
        /\ d.status[b] = "Done"}

\* a first pass that finds no stale book
to_remove_none(d, now) == {}

\* a first pass that takes the stale books of every status
to_remove_any_status(d, now) ==
    {b \in DOMAIN d.status :
        /\ b \in DOMAIN d.status_timestamps
        /\ duration_since(now, d.status_timestamps[b]) > d.status_timeout}

\* first pass of refresh_internal: the stale Done books
to_remove(d, now) ==
    {b \in DOMAIN d.status :
        /\ b \in DOMAIN d.status_timestamps
        /\ duration_since(now, d.status_timestamps[b]) > d.status_timeout
        /\ d.status[b] = "Done"}

\* second pass of refresh_internal: mark the books of upd Done, each at stamp[b]
RECURSIVE apply_updates(_, _, _)
apply_updates(d, upd, stamp) ==
    IF upd = {} THEN d
    ELSE LET b == CHOOSE x \in upd : TRUE
         IN  apply_updates(update_status_internal(d, b, "Done", stamp[b]),
                           upd \ {b}, stamp)

\* removal that leaves the identifier pending
remove_entry_keeps_pending(d, b) ==
    [d EXCEPT !.status            = MapRemove(d.status, b),
              !.status_timestamps = MapRemove(d.status_timestamps, b),
              !.book_data         = MapRemove(d.book_data, b)]

\* a removal that leaves the record of the book
remove_entry_keeps_record(d, b) ==
    [d EXCEPT !.status            = MapRemove(d.status, b),
              !.status_timestamps = MapRemove(d.status_timestamps, b),
              !.queue             = d.queue \ {b}]

\* removal of one stale entry from every table
remove_entry(d, b) ==
    [d EXCEPT !.status            = MapRemove(d.status, b),
              !.status_timestamps = MapRemove(d.status_timestamps, b),
              !.book_data         = MapRemove(d.book_data, b),
              !.queue             = d.queue \ {b}]

\* second pass of refresh_internal: remove the books of rem
RECURSIVE apply_removals(_, _)
apply_removals(d, rem) ==
    IF rem = {} THEN d
    ELSE LET b == CHOOSE x \in rem : TRUE
         IN  apply_removals(remove_entry(d, b), rem \ {b})

\* BookQueue::refresh_internal; now is the instant read at entry, stamp[b]
\* a refresh that decides the removals after the promotions, by the old
\* timestamps
refresh_internal_evicts_promoted(d, now, stamp, fs) ==
    LET upd == to_update(d, fs)
        rem == to_remove(d, now) \cup
                    {b \in upd : duration_since(now, d.status_timestamps[b])
                                    > d.status_timeout}
    IN  apply_removals(apply_updates(d, upd, stamp), rem)

\* the instant read when book b is marked Done, fs the ingest directory
refresh_internal(d, now, stamp, fs) ==
    LET upd == to_update(d, fs)
        rem == to_remove(d, now)
    IN  apply_removals(apply_updates(d, upd, stamp), rem)

\* grouping without the pre-populated empty groups
snapshot_sparse(d) ==
    [s \in {d.status[x] : x \in DOMAIN d.status} |->
        [b \in {x \in DOMAIN d.status :
                    d.status[x] = s /\ x \in DOMAIN d.book_data}
            |-> d.book_data[b]]]

\* the grouping loop of BookQueue::get_status
snapshot(d) ==
    [s \in QueueStatus |->
        [b \in {x \in DOMAIN d.status :
                    d.status[x] = s /\ x \in DOMAIN d.book_data}
            |-> d.book_data[b]]]

\* impl ToString for QueueStatus
to_string(st) ==
    CASE st = "Queued"      -> "queued"
      [] st = "Downloading" -> "downloading"
      [] st = "Available"   -> "available"
      [] st = "Error"       -> "error"
      [] st = "Done"        -> "done"

\* backend::queue_status: the snapshot re-keyed by status name
queue_status(statuses) ==
    [n \in {to_string(s) : s \in DOMAIN statuses} |->
        statuses[CHOOSE s \in DOMAIN statuses : to_string(s) = n]]

\* BookQueue::set_status_timeout
set_status_timeout(d, hours) ==
    [d EXCEPT !.status_timeout = hours * SecsPerHour]

(* ------------------------ recorded call and return --------------------- *)

NoRec == [id |-> "", title |-> ""]

\* pre is the status table as it was when the operation was called, fs the
\* identifiers whose artifact a refresh found in the ingest directory
Call(name, id, st, rec, hours, now, pre, fs) ==
    [name |-> name, id |-> id, status |-> st, rec |-> rec,
     hours |-> hours, now |-> now, pre |-> pre, files |-> fs]

RetUnit       == [kind |-> "unit",   next |-> <<>>, groups |-> <<>>]
RetNext(o)    == [kind |-> "next",   next |-> o,    groups |-> <<>>]
RetStatus(g)  == [kind |-> "status", next |-> <<>>, groups |-> <<g>>]

(* ------------------------------- actions ------------------------------- *)

Init ==
    /\ \E c \in ConfigTimeouts : data = new(c)
    /\ clock = 0
    /\ op = Call("new", "", "", NoRec, -1, -1, EmptyMap, {})
    /\ ret = RetUnit
    /\ pc = Idle /\ mutex = 0
    /\ download = Idle /\ search = Idle /\ page = Idle

\* queue.add(book_id, book_data)
Add(book_id, book_data) ==
    /\ data' = add(data, book_id, book_data, clock)
    /\ op' = Call("add", book_id, "", book_data, -1, clock, data.status, {})
    /\ ret' = RetUnit
    /\ UNCHANGED clock
    /\ UNCHANGED <<threadVars, managerVars>>

\* queue.get_next(): some member of the pending set, or None
GetNext ==
    /\ \/ /\ data.queue = {}
          /\ data' = data
          /\ ret' = RetNext(<<>>)
       \/ \E book_id \in data.queue :
            /\ data' = get_next(data, book_id)
            /\ ret' = RetNext(<<book_id>>)
    /\ op' = Call("get_next", "", "", NoRec, -1, -1, data.status, {})
    /\ UNCHANGED clock
    /\ UNCHANGED <<threadVars, managerVars>>

\* queue.update_status(book_id, status)
UpdateStatus(book_id, st) ==
    /\ data' = update_status(data, book_id, st, clock)
    /\ op' = Call("update_status", book_id, st, NoRec, -1,
                  IF book_id \in DOMAIN data.status THEN clock ELSE -1,
                  data.status, {})
    /\ ret' = RetUnit
    /\ UNCHANGED clock
    /\ UNCHANGED <<threadVars, managerVars>>

\* the books whose artifact a refresh looks for
Checked(d) == {b \in DOMAIN d.status : d.status[b] = "Available"}

\* the instants a refresh may read: now at entry, then one per promotion
Stamps(d, now, fs) == [to_update(d, fs) -> NowFrom(now)]

\* the last instant read by a refresh
LastRead(now, stamp) ==
    IF DOMAIN stamp = {} THEN now
    ELSE CHOOSE m \in {stamp[b] : b \in DOMAIN stamp} :
            \A b \in DOMAIN stamp : stamp[b] <= m

\* queue.refresh()
Refresh ==
    \E fs \in SUBSET Checked(data) :
      \E stamp \in Stamps(data, clock, fs) :
        /\ data' = refresh_internal(data, clock, stamp, fs)
        /\ clock' = LastRead(clock, stamp)
        /\ op' = Call("refresh", "", "", NoRec, -1, clock, data.status, fs)
        /\ ret' = RetUnit
        /\ UNCHANGED <<threadVars, managerVars>>

\* queue.get_status(): refresh, then the grouped snapshot
GetStatus ==
    \E fs \in SUBSET Checked(data) :
      \E stamp \in Stamps(data, clock, fs) :
        /\ data' = refresh_internal(data, clock, stamp, fs)
        /\ clock' = LastRead(clock, stamp)
        /\ op' = Call("get_status", "", "", NoRec, -1, clock, data.status, fs)
        /\ ret' = RetStatus(snapshot(data'))
        /\ UNCHANGED <<threadVars, managerVars>>

\* queue.set_status_timeout(hours)
SetStatusTimeout(hours) ==
    /\ data' = set_status_timeout(data, hours)
    /\ op' = Call("set_status_timeout", "", "", NoRec, hours, -1, data.status, {})
    /\ ret' = RetUnit
    /\ UNCHANGED clock
    /\ UNCHANGED <<threadVars, managerVars>>

\* time passes
Tick ==
    /\ \E t \in NowFrom(clock) \ {clock} : clock' = t
    /\ UNCHANGED <<data, op, ret>>
    /\ UNCHANGED <<threadVars, managerVars>>

AddStep == \E i \in Ids, r \in BookInfo : Add(i, r)

UpdateStatusStep == \E i \in Ids, s \in QueueStatus : UpdateStatus(i, s)

SetStatusTimeoutStep == \E h \in 0..MaxHours : SetStatusTimeout(h)

Next ==
    \/ AddStep
    \/ GetNext
    \/ UpdateStatusStep
    \/ Refresh
    \/ GetStatus
    \/ SetStatusTimeoutStep
    \/ Tick

Spec == Init /\ [][Next]_vars

(* ------------------------------ properties ----------------------------- *)

\* the steps of each operation
IsAdd == op'.name = "add" /\ Add(op'.id, op'.rec)
IsGetNext == op'.name = "get_next" /\ GetNext
IsUpdateStatus == op'.name = "update_status" /\ UpdateStatus(op'.id, op'.status)
IsRefresh == op'.name = "refresh" /\ Refresh
IsGetStatus == op'.name = "get_status" /\ GetStatus
IsSetStatusTimeout == op'.name = "set_status_timeout" /\ SetStatusTimeout(op'.hours)

\* the steps that run refresh_internal
RefreshStep == IsRefresh \/ IsGetStatus

\* the tables of d other than the timestamps
SameButTimestamps(d, e) ==
    /\ d.queue = e.queue
    /\ d.status = e.status
    /\ d.book_data = e.book_data
    /\ DOMAIN d.status_timestamps = DOMAIN e.status_timestamps
    /\ d.status_timeout = e.status_timeout

\* the status groups of a snapshot that list identifier i
GroupsOf(g, i) == {s \in DOMAIN g : i \in DOMAIN g[s]}

\* C1: after add(i, r) the table holds the job of i with record r, status
\* Queued and the timestamp of the call, i is pending, a get_status() that
\* follows lists i under Queued only, and a second add(i, r) leaves the
\* same table apart from the timestamp.
C1_AddQueues ==
    [][ /\ IsAdd =>
            LET i == op'.id IN
            /\ i \in DOMAIN data'.status
            /\ data'.status[i] = "Queued"
            /\ i \in DOMAIN data'.book_data
            /\ data'.book_data[i] = op'.rec
            /\ i \in DOMAIN data'.status_timestamps
            /\ data'.status_timestamps[i] = op'.now
            /\ op'.now >= clock
            /\ i \in data'.queue
            /\ \A j \in Ids \ {i} :
                  /\ (j \in DOMAIN data'.status) = (j \in DOMAIN data.status)
                  /\ (j \in data'.queue) = (j \in data.queue)
        /\ (op.name = "add" /\ IsGetStatus) =>
            GroupsOf(ret'.groups[1], op.id) = {"Queued"}
        /\ (op.name = "add" /\ IsAdd /\ op'.id = op.id /\ op'.rec = op.rec) =>
            SameButTimestamps(data', data)
      ]_vars

\* C1 witness: add was called for an identifier whose job was Done, and
\* the job is Queued and pending again with the new record
C1_Witness ==
    /\ op.name = "add"
    /\ op.id \in DOMAIN op.pre
    /\ op.pre[op.id] = "Done"
    /\ data.status[op.id] = "Queued"
    /\ data.book_data[op.id] = op.rec
    /\ op.id \in data.queue

\* C2: every get_status() answer has the five groups queued, downloading,
\* available, error and done, and every identifier of the table is in
\* exactly one of them.
C2_SnapshotGroups ==
    (op.name = "get_status") =>
        LET g == ret.groups[1]
            j == queue_status(g)
        IN  /\ DOMAIN g = QueueStatus
            /\ DOMAIN j = {"queued", "downloading", "available", "error", "done"}
            /\ \A i \in DOMAIN data.status :
                  /\ GroupsOf(g, i) = {data.status[i]}
                  /\ {n \in DOMAIN j : i \in DOMAIN j[n]} = {to_string(data.status[i])}
            /\ \A s \in QueueStatus : DOMAIN g[s] \subseteq DOMAIN data.status

\* C2 witness: a snapshot with two jobs in different groups and empty groups
C2_Witness ==
    /\ op.name = "get_status"
    /\ DOMAIN data.status = Ids
    /\ \E i, k \in Ids : data.status[i] = "Done" /\ data.status[k] = "Error"
    /\ ret.groups[1]["Queued"] = EmptyMap

\* C3: update_status on an identifier that is not in the table changes
\* nothing and reports nothing.
C3_UpdateUnknownNoOp ==
    [][ (IsUpdateStatus /\ op'.id \notin DOMAIN data.status) =>
            (data' = data /\ ret' = RetUnit) ]_vars

\* C3 witness: update_status was called on an identifier that was evicted
\* while the other job is still in the table
C3_Witness ==
    /\ op.name = "update_status"
    /\ op.id \notin DOMAIN op.pre
    /\ op.id \notin DOMAIN data.status
    /\ DOMAIN data.status # {}
    /\ clock > 0

\* the status order of the specification
HappyPath ==
    {<<"Queued", "Downloading">>, <<"Downloading", "Available">>,
     <<"Available", "Done">>, <<"Queued", "Error">>, <<"Downloading", "Error">>}

\* C4 as stated: a job's status only changes along Queued -> Downloading ->
\* Available -> Done or from Queued or Downloading to Error.
C4_Original ==
    [][ \A i \in (DOMAIN data.status) \cap (DOMAIN data'.status) :
            data.status[i] # data'.status[i] =>
                <<data.status[i], data'.status[i]>> \in HappyPath ]_vars

\* C4 amended: a job's status changes only by add (to Queued, from any
\* status), by update_status(i, s) (to s, from any status) or by a refresh,
\* which only moves Available to Done; under refresh, get_status, get_next
\* and set_status_timeout Error and Done are terminal.
C4_StatusChanges ==
    [][ (data'.status # data.status) =>
          \A i \in (DOMAIN data.status) \cap (DOMAIN data'.status) :
            data.status[i] # data'.status[i] =>
                \/ IsAdd /\ op'.id = i /\ data'.status[i] = "Queued"
                \/ IsUpdateStatus /\ op'.id = i /\ data'.status[i] = op'.status
                \/ /\ RefreshStep
                   /\ data.status[i] = "Available"
                   /\ data'.status[i] = "Done" ]_vars

\* C4 witness: update_status moved a Done job back to Downloading
C4_Witness ==
    /\ op.name = "update_status"
    /\ op.id \in DOMAIN op.pre
    /\ op.pre[op.id] = "Done"
    /\ data.status[op.id] = "Downloading"

\* C5: get_next() answers none exactly when the pending set is empty and
\* then changes nothing; otherwise it answers one pending identifier,
\* removes exactly it from the pending set and leaves every job alone; it
\* can always be taken.
C5_GetNext ==
    /\ [][ IsGetNext =>
            /\ (ret'.next = <<>>) = (data.queue = {})
            /\ (data.queue = {}) => (data' = data)
            /\ (data.queue # {}) =>
                  /\ Len(ret'.next) = 1
                  /\ ret'.next[1] \in data.queue
                  /\ data'.queue = data.queue \ {ret'.next[1]}
                  /\ data'.status = data.status
                  /\ data'.book_data = data.book_data
                  /\ data'.status_timestamps = data.status_timestamps
                  /\ data'.status_timeout = data.status_timeout ]_vars
    /\ [](ENABLED GetNext)

\* C5 witness: get_next took one of two pending identifiers
C5_Witness ==
    /\ op.name = "get_next"
    /\ Len(ret.next) = 1
    /\ ret.next[1] \notin data.queue
    /\ data.queue # {}
    /\ DOMAIN data.status = Ids

\* C6 as stated: an identifier returned by get_next() has a job in the
\* table with status Queued.
C6_NextIsQueued ==
    (op.name = "get_next" /\ ret.next # <<>>) =>
        /\ ret.next[1] \in DOMAIN data.status
        /\ data.status[ret.next[1]] = "Queued"

\* C7: a refresh turns to Done every Available job whose artifact is
\* missing and leaves the Available jobs whose artifact is present, with
\* their timestamps; no snapshot lists under Available a job whose
\* artifact is missing.
C7_RefreshAvailable ==
    [][ /\ RefreshStep =>
            \A i \in DOMAIN data.status :
                data.status[i] = "Available" =>
                    /\ i \in DOMAIN data'.status
                    /\ IF i \in op'.files
                       THEN /\ data'.status[i] = "Available"
                            /\ data'.status_timestamps[i] = data.status_timestamps[i]
                       ELSE data'.status[i] = "Done"
        /\ IsGetStatus =>
            DOMAIN ret'.groups[1]["Available"] \subseteq op'.files ]_vars

\* C7 witness: one refresh promoted the job without artifact and kept the
\* job with artifact
C7_Witness ==
    /\ op.name = "refresh"
    /\ \E i, k \in DOMAIN op.pre :
          /\ op.pre[i] = "Available" /\ i \notin op.files
          /\ data.status[i] = "Done"
          /\ op.pre[k] = "Available" /\ k \in op.files
          /\ data.status[k] = "Available"

\* C8 as stated: after set_status_timeout(0) followed by refresh(), every
\* job that was Done is absent and the jobs in other statuses are present.
C8_ZeroTimeoutEvicts ==
    [][ (op.name = "set_status_timeout" /\ op.hours = 0 /\ IsRefresh) =>
            \A i \in DOMAIN data.status :
                IF data.status[i] = "Done"
                THEN i \notin DOMAIN data'.status
                ELSE i \in DOMAIN data'.status ]_vars

\* C9: a refresh removes a job only if the job was Done at the start of
\* the refresh and older than the timeout; other jobs stay.
C9_EvictionCondition ==
    [][ RefreshStep =>
            \A i \in DOMAIN data.status :
                (i \notin DOMAIN data'.status) =>
                    /\ data.status[i] = "Done"
                    /\ op'.now - data.status_timestamps[i] > data.status_timeout ]_vars

\* C9 witness: one refresh removed a Done job older than the timeout and
\* kept a Done job whose age equals the timeout
C9_Witness ==
    /\ op.name = "refresh"
    /\ \E i \in DOMAIN op.pre : i \notin DOMAIN data.status
    /\ \E k \in DOMAIN data.status :
          /\ op.pre[k] = "Done"
          /\ data.status[k] = "Done"
          /\ op.now - data.status_timestamps[k] = data.status_timeout

\* every identifier with an entry in a table of d has one in that table of e
KeysKept(d, e) ==
    /\ DOMAIN d.status \subseteq DOMAIN e.status
    /\ DOMAIN d.book_data \subseteq DOMAIN e.book_data
    /\ DOMAIN d.status_timestamps \subseteq DOMAIN e.status_timestamps

\* C10: the table shrinks only inside a refresh: add, get_next,
\* update_status and set_status_timeout remove no job.
C10_OnlyRefreshRemoves ==
    [][ \/ KeysKept(data, data')
        \/ /\ RefreshStep
           /\ ~(IsAdd \/ IsGetNext \/ IsUpdateStatus \/ IsSetStatusTimeout) ]_vars

\* C10 witness: set_status_timeout(0) left a stale Done job in the table
C10_Witness ==
    /\ op.name = "set_status_timeout"
    /\ op.hours = 0
    /\ \E i \in DOMAIN data.status :
          /\ data.status[i] = "Done"
          /\ clock - data.status_timestamps[i] > data.status_timeout

\* C11: a refresh removes an evicted identifier from the status table, the
\* timestamp table, the record table and the pending set together, and
\* get_next() never returns an identifier that has no job in the table.
C11_EvictsEverywhere ==
    [][ /\ RefreshStep =>
            \A i \in DOMAIN data.status :
                (i \notin DOMAIN data'.status) =>
                    /\ i \notin DOMAIN data'.status_timestamps
                    /\ i \notin DOMAIN data'.book_data
                    /\ i \notin data'.queue
        /\ (IsGetNext /\ ret'.next # <<>>) =>
            ret'.next[1] \in DOMAIN data.status ]_vars

\* C11 witness: a refresh evicted one job and no table holds its identifier,
\* while the other job is still in every table and pending
C11_Witness ==
    /\ op.name = "refresh"
    /\ \E i \in DOMAIN op.pre, k \in DOMAIN data.status :
          /\ i \notin DOMAIN data.status
          /\ i \notin DOMAIN data.status_timestamps
          /\ i \notin DOMAIN data.book_data
          /\ i \notin data.queue
          /\ k \in data.queue

\* C17: in every reachable state each job's record carries the identifier
\* under which the job is stored.
C17_KeyIsRecordId ==
    \A i \in DOMAIN data.book_data : data.book_data[i].id = i

\* ---------------------------------------------------------------------
\* Threads sharing one BookQueue: every method takes the Mutex, works on
\* the tables and drops the guard on return.
\* ---------------------------------------------------------------------

\* number of worker threads
MaxThreads == 2

\* the identifiers format!("{}-{}", book_id, i) of the thread tests
ThreadBookIds == <<"ABCD-0", "ABCD-1", "ABCD-2", "ABCD-3">>

\* BookInfo::new(book_id, "Title") of the thread tests
ThreadRecord == [id |-> "ABCD", title |-> "Title"]

\* the thread that joins the workers' queue and reads it
Observer == MaxThreads + 1

\* the worker threads of a run
Workers(p) == DOMAIN p \ {Observer}

\* a call of a thread
ThreadCall(name, id, st, hours) ==
    [name |-> name, id |-> id, status |-> st, hours |-> hours]

\* the closure of worker k: add, then update_status
Program(k) ==
    << ThreadCall("add", ThreadBookIds[k], "", -1),
       ThreadCall("update_status", ThreadBookIds[k], "Downloading", -1) >>

\* the calls the observing thread makes
ObserverCalls ==
    {ThreadCall(n, "", "", -1) : n \in {"get_next", "get_status", "refresh"}}
        \cup {ThreadCall("set_status_timeout", "", "", h) : h \in 0..MaxHours}

\* a thread outside any call, having finished i calls
Ready(i) ==
    [state |-> "ready", i |-> i, call |-> ThreadCall("", "", "", -1),
     seen |-> new(0)]

\* Mutex::lock blocking on a held mutex
lock_unguarded(m) == TRUE

\* Mutex::lock: the guard is granted when no thread holds the mutex
lock(m) == m = 0

\* a guard that is never dropped
unlock_forgets(m) == m

\* drop of the MutexGuard at the end of a method
unlock(m) == 0

\* the outcomes of a method's body on the tables it sees
Effects(c, d, now) ==
    CASE c.name = "add" ->
            {<<add(d, c.id, ThreadRecord, now), RetUnit>>}
      [] c.name = "update_status" ->
            {<<update_status(d, c.id, c.status, now), RetUnit>>}
      [] c.name = "get_next" ->
            IF d.queue = {} THEN {<<d, RetNext(<<>>)>>}
            ELSE {<<get_next(d, b), RetNext(<<b>>)>> : b \in d.queue}
      [] c.name = "refresh" ->
            UNION {{<<refresh_internal(d, now, stamp, fs), RetUnit>> :
                        stamp \in Stamps(d, now, fs)} :
                            fs \in SUBSET Checked(d)}
      [] c.name = "get_status" ->
            UNION {{<<refresh_internal(d, now, stamp, fs),
                      RetStatus(snapshot(refresh_internal(d, now, stamp, fs)))>> :
                        stamp \in Stamps(d, now, fs)} :
                            fs \in SUBSET Checked(d)}
      [] c.name = "set_status_timeout" ->
            {<<set_status_timeout(d, c.hours), RetUnit>>}

\* the state after BookQueue::new() and the spawn of n workers
InitThreads ==
    /\ data = new(0)
    /\ clock = 0
    /\ op = Call("new", "", "", NoRec, -1, -1, EmptyMap, {})
    /\ ret = RetUnit
    /\ \E n \in 1..MaxThreads :
          pc = [t \in (1..n) \cup {Observer} |-> Ready(0)]
    /\ mutex = 0
    /\ download = Idle /\ search = Idle /\ page = Idle

\* the calls thread t may make next
NextCalls(t) ==
    IF t = Observer THEN ObserverCalls
    ELSE IF pc[t].i < Len(Program(t)) THEN {Program(t)[pc[t].i + 1]}
    ELSE {}

\* self.0.lock().unwrap()
Lock(t) ==
    /\ pc[t].state = "ready"
    /\ lock(mutex)
    /\ \E c \in NextCalls(t) :
          pc' = [pc EXCEPT ![t].state = "locked", ![t].call = c]
    /\ mutex' = t
    /\ UNCHANGED <<queueVars, managerVars>>

\* the body reads the tables through the guard
Read(t) ==
    /\ pc[t].state = "locked"
    /\ pc' = [pc EXCEPT ![t].state = "read", ![t].seen = data]
    /\ UNCHANGED <<mutex, queueVars, managerVars>>

\* the body writes the tables through the guard
Write(t) ==
    /\ pc[t].state = "read"
    /\ \E e \in Effects(pc[t].call, pc[t].seen, clock) :
          /\ data' = e[1]
          /\ ret' = e[2]
    /\ op' = Call(pc[t].call.name, pc[t].call.id, pc[t].call.status,
                  IF pc[t].call.name = "add" THEN ThreadRecord ELSE NoRec,
                  pc[t].call.hours, clock, pc[t].seen.status, {})
    /\ pc' = [pc EXCEPT ![t].state = "written"]
    /\ UNCHANGED <<clock, mutex, managerVars>>

\* the method returns and the guard is dropped
Unlock(t) ==
    /\ pc[t].state = "written"
    /\ mutex' = unlock(mutex)
    /\ pc' = [pc EXCEPT ![t] =
                IF t = Observer THEN Ready(0)
                ELSE IF pc[t].i + 1 = Len(Program(t))
                     THEN [Ready(pc[t].i + 1) EXCEPT !.state = "done"]
                     ELSE Ready(pc[t].i + 1)]
    /\ UNCHANGED <<queueVars, managerVars>>

LockStep == \E t \in DOMAIN pc : Lock(t)

ReadStep == \E t \in DOMAIN pc : Read(t)

WriteStep == \E t \in DOMAIN pc : Write(t)

UnlockStep == \E t \in DOMAIN pc : Unlock(t)

NextThreads ==
    \/ LockStep
    \/ ReadStep
    \/ WriteStep
    \/ UnlockStep

SpecThreads == InitThreads /\ [][NextThreads]_vars

\* thread t is inside a method
InOp(t) == pc[t].state \in {"locked", "read", "written"}

\* every worker thread has been joined
AllJoined == \A t \in Workers(pc) : pc[t].state = "done"

\* the identifiers of the workers
WorkerIds == {ThreadBookIds[t] : t \in Workers(pc)}

\* C13: once all N workers have finished add(id_k, r); update_status(id_k,
\* Downloading), the table holds exactly the N jobs, all Downloading, and a
\* get_status() made after the join lists all N under Downloading.
C13_NoLostUpdate ==
    /\ [](AllJoined =>
            /\ DOMAIN data.status = WorkerIds
            /\ DOMAIN data.book_data = WorkerIds
            /\ \A i \in WorkerIds : data.status[i] = "Downloading"
            /\ DOMAIN snapshot(data)["Downloading"] = WorkerIds)
    /\ [][ (AllJoined /\ op'.name = "get_status" /\ Write(Observer)) =>
                DOMAIN ret'.groups[1]["Downloading"] = WorkerIds ]_vars

\* C13 witness: MaxThreads workers have finished and the observer's
\* get_status() lists their jobs under Downloading
C13_Witness ==
    /\ AllJoined
    /\ Cardinality(Workers(pc)) = MaxThreads
    /\ op.name = "get_status"
    /\ ret.kind = "status"
    /\ Cardinality(DOMAIN ret.groups[1]["Downloading"]) = MaxThreads

\* C14: a thread is inside a method only while it holds the mutex, so at
\* most one thread is inside a method; the tables change only under the
\* mutex and each body acts on the tables as they are (the calls take effect
\* one after the other); the mutex is free when no thread is inside a method;
\* and some thread can always take a step.
C14_Serialized ==
    /\ [](\A t \in DOMAIN pc : InOp(t) => mutex = t)
    /\ [](\A t, u \in DOMAIN pc : (InOp(t) /\ InOp(u)) => t = u)
    /\ []((\A t \in DOMAIN pc : ~InOp(t)) => mutex = 0)
    /\ [](\A t \in DOMAIN pc : pc[t].state \in {"read", "written"} =>
                \/ pc[t].state = "read" /\ pc[t].seen = data
                \/ pc[t].state = "written" /\ pc[t].seen.status = op.pre)
    /\ [][ data' # data => \E t \in DOMAIN pc : mutex = t /\ Write(t) ]_vars
    /\ [](ENABLED NextThreads)

\* C14 witness: one thread is inside a method with the mutex while another
\* thread waits to enter its next call
C14_Witness ==
    \E t, u \in DOMAIN pc :
        /\ t # u
        /\ pc[t].state = "read"
        /\ mutex = t
        /\ pc[u].state = "ready"
        /\ pc[u].i = 1
        /\ pc[t].call.name = "update_status"

\* ---------------------------------------------------------------------
\* book_manager::download_book: the candidate URLs of a record are fetched
\* one after the other until one fetch succeeds.
\* ---------------------------------------------------------------------

\* longest list of candidate URLs
MaxUrls == 2

Urls == {"u1", "u2"}

\* byte payloads a mirror may serve
Payloads == {"p1", "p2"}

\* BookInfo.format: Option<String>
Formats == {<<>>, <<"epub">>}

\* the fields of BookInfo that download_book reads
DownloadRecords ==
    [id : Ids, format : Formats,
     download_urls : UNION {[1..n -> Urls] : n \in 0..MaxUrls}]

\* Option::unwrap_or_default on the format
unwrap_or_default(o) == IF o = <<>> THEN "" ELSE o[1]

\* CONFIG.tmp_dir.join(format!("{}.{}", id, format))
staging_path(info) == <<"tmp_dir", info.id, ".", unwrap_or_default(info.format)>>

\* the results of network::download_url
FetchResults ==
    {[kind |-> "err", data |-> ""]} \cup {[kind |-> "ok", data |-> p] : p \in Payloads}

\* every fetch result taken for a payload
is_ok_always(r) == TRUE

\* if let Ok(data) = network::download_url(url).await
is_ok(r) == r.kind = "ok"

\* the URLs taken from the end of the list
url_at_reversed(info, k) == info.download_urls[Len(info.download_urls) - k]

\* for url in &book_info.download_urls: the URL of iteration k (from 0)
url_at(info, k) == info.download_urls[k + 1]

\* what a failed tokio::fs::write may leave at the path
AfterFailedWrite(files, path) == {files, MapInsert(files, path, "partial")}

\* the state at the call of download_book(&book_info)
InitDownload ==
    /\ \E c \in ConfigTimeouts, st \in {"Queued", "Downloading"},
          info \in DownloadRecords, old \in {<<>>, <<"old">>} :
          /\ data = update_status(
                        add(new(c), info.id, [id |-> info.id, title |-> "Title"], 0),
                        info.id, st, 0)
          /\ op = Call("update_status", info.id, st, NoRec, -1, 0,
                       [x \in {info.id} |-> "Queued"], {})
          /\ download =
                [state |-> "running", info |-> info, k |-> 0, log |-> <<>>,
                 before |-> IF old = <<>> THEN EmptyMap
                            ELSE MapInsert(EmptyMap, staging_path(info), old[1]),
                 files |-> IF old = <<>> THEN EmptyMap
                           ELSE MapInsert(EmptyMap, staging_path(info), old[1])]
    /\ clock = 0
    /\ ret = RetUnit
    /\ pc = Idle /\ mutex = 0
    /\ search = Idle /\ page = Idle

\* one loop iteration has fetched url with result r
Attempted(r) ==
    [download EXCEPT
        !.k = download.k + 1,
        !.log = Append(download.log,
                       [url |-> url_at(download.info, download.k),
                        kind |-> r.kind, data |-> r.data])]

\* an iteration whose fetch fails: the loop goes on
FetchFails ==
    /\ download.state = "running"
    /\ download.k < Len(download.info.download_urls)
    /\ \E r \in FetchResults :
          /\ ~is_ok(r)
          /\ download' = Attempted(r)
    /\ UNCHANGED <<queueVars, threadVars, search, page>>

\* an iteration whose fetch succeeds and whose write succeeds: return Ok(())
FetchWrites ==
    /\ download.state = "running"
    /\ download.k < Len(download.info.download_urls)
    /\ \E r \in FetchResults :
          /\ is_ok(r)
          /\ download' =
                [Attempted(r) EXCEPT
                    !.state = "ok",
                    !.files = MapInsert(download.files,
                                        staging_path(download.info), r.data)]
    /\ UNCHANGED <<queueVars, threadVars, search, page>>

\* an iteration whose fetch succeeds and whose write fails: the ? returns
\* the write error
WriteFails ==
    /\ download.state = "running"
    /\ download.k < Len(download.info.download_urls)
    /\ \E r \in FetchResults :
          /\ is_ok(r)
          /\ \E f \in AfterFailedWrite(download.files, staging_path(download.info)) :
                download' = [Attempted(r) EXCEPT !.state = "err_write", !.files = f]
    /\ UNCHANGED <<queueVars, threadVars, search, page>>

\* the loop ends without a payload: Err("Failed to download book")
Exhausted ==
    /\ download.state = "running"
    /\ download.k = Len(download.info.download_urls)
    /\ download' = [download EXCEPT !.state = "err_all"]
    /\ UNCHANGED <<queueVars, threadVars, search, page>>

NextDownload ==
    \/ FetchFails
    \/ FetchWrites
    \/ WriteFails
    \/ Exhausted

SpecDownload == InitDownload /\ [][NextDownload]_vars

\* the URLs were attempted in list order, and only the last attempt may
\* have fetched a payload
InListOrder ==
    /\ download.k = Len(download.log)
    /\ download.k <= Len(download.info.download_urls)
    /\ \A j \in 1..Len(download.log) :
          /\ download.log[j].url = download.info.download_urls[j]
          /\ (j < Len(download.log)) => download.log[j].kind = "err"

\* the last attempt fetched a payload
LastFetched ==
    /\ download.log # <<>>
    /\ download.log[Len(download.log)].kind = "ok"

\* the staged file holds the payload of the last attempt
StagedLast ==
    /\ staging_path(download.info) \in DOMAIN download.files
    /\ download.files[staging_path(download.info)] =
            download.log[Len(download.log)].data

\* C15 as stated: URLs are attempted in list order, a failed fetch does not
\* end the sequence, and at the first fetched payload the file is staged
\* with that payload, success is returned and no later URL is attempted.
C15_Original ==
    /\ InListOrder
    /\ LastFetched => (download.state = "ok" /\ StagedLast)
    /\ (download.state = "ok") => LastFetched

\* C15 amended: as stated when the write of the payload succeeds; when the
\* write fails the write error is returned; in both cases no later URL is
\* attempted.
C15_FirstPayloadStaged ==
    /\ [](InListOrder)
    /\ [](LastFetched => download.state \in {"ok", "err_write"})
    /\ [](download.state \in {"ok", "err_write"} => LastFetched)
    /\ [](download.state = "ok" => StagedLast)
    /\ []((~LastFetched /\ download.k < Len(download.info.download_urls))
            => (download.state = "running" /\ ENABLED FetchFails))
    /\ [][download.state # "running" => download' = download]_vars

\* C15 witness: the first URL failed, the second was fetched and staged,
\* replacing an older file, and success was returned
C15_Witness ==
    /\ download.state = "ok"
    /\ Len(download.log) = 2
    /\ download.log[1].kind = "err"
    /\ download.info.download_urls[1] # download.info.download_urls[2]
    /\ download.before # EmptyMap
    /\ StagedLast

\* C16: when every fetch failed or the record has no URL, download_book
\* returns the failure, the staging directory is as before, and no step of
\* download_book changes the queue.
C16_AllFailed ==
    /\ []((~LastFetched /\ download.k = Len(download.info.download_urls))
            => /\ download.state \in {"running", "err_all"}
               /\ ENABLED Exhausted \/ download.state = "err_all"
               /\ download.files = download.before)
    /\ [](download.state = "err_all" =>
            /\ ~LastFetched
            /\ download.k = Len(download.info.download_urls)
            /\ data.status[download.info.id] # "Error")
    /\ [][data' = data]_vars

\* C16 witness: every URL of a full list failed, the failure was returned
\* and the job is still Downloading
C16_Witness ==
    /\ download.state = "err_all"
    /\ Len(download.log) = MaxUrls
    /\ download.files = EmptyMap
    /\ data.status[download.info.id] = "Downloading"

\* ---------------------------------------------------------------------
\* book_manager::parse_search_results: one record per usable row of the
\* first table of a results page.
\* ---------------------------------------------------------------------

\* most rows in a results table
MaxRows == 2

\* cells a row needs: if cells.len() < 11 { return Ok(None) }
MinCells == 11

\* link targets, split at '/'
Hrefs == {<<"", "md5", "a">>, <<"", "md5", "b">>}

\* the <a> elements of a cell, each with its href attribute or without one
AnchorLists ==
    {<<>>, << <<>> >>, << <<>>, << <<"", "md5", "b">> >> >>}
        \cup {<< <<h>> >> : h \in Hrefs}

\* the text nodes of a cell
TextLists == {<<>>, <<"Title">>, <<"Ti", "tle">>}

\* a <td>: its anchors and its text nodes
Cell(anchors, texts) == [anchors |-> anchors, texts |-> texts]

\* a <tr> of n cells: links in the first cell, text in the others
Row(n, anchors, texts) ==
    [i \in 1..n |-> IF i = 1 THEN Cell(anchors, <<>>) ELSE Cell(<<>>, texts)]

Rows ==
    {Row(n, a, t) : n \in {MinCells - 1, MinCells}, a \in AnchorLists, t \in TextLists}

\* the first <table> of the page, if any: its rows in document order
Tables ==
    {<<>>} \cup {<<rs>> : rs \in UNION {[1..n -> Rows] : n \in 0..MaxRows}}

\* href.split('/').last()
last_segment(href) == href[Len(href)]

\* cell.select(a).next().and_then(attr("href")).and_then(split('/').last())
first_link_id(cell) ==
    IF cell.anchors = <<>> THEN <<>>
    ELSE IF cell.anchors[1] = <<>> THEN <<>>
    ELSE <<last_segment(cell.anchors[1][1])>>

\* cell.text().next().unwrap_or("")
first_text(cell) == IF cell.texts = <<>> THEN "" ELSE cell.texts[1]

\* BookInfo { id, title: cells[1]..., author: Some(cells[2]...), ... }
book_info(id, cells) ==
    [id |-> id,
     title |-> first_text(cells[2]),
     author |-> <<first_text(cells[3])>>,
     publisher |-> <<first_text(cells[4])>>,
     year |-> <<first_text(cells[5])>>,
     language |-> <<first_text(cells[8])>>,
     format |-> <<first_text(cells[10])>>,
     size |-> <<first_text(cells[11])>>]

\* the row parser without the check of the number of cells
parse_search_result_row_unchecked(cells) ==
    IF first_link_id(cells[1]) = <<>> THEN <<>>
    ELSE << [id |-> first_link_id(cells[1])[1], title |-> first_text(cells[2])] >>

\* parse_search_result_row: Ok(None) or Ok(Some(book))
parse_search_result_row(cells) ==
    IF Len(cells) < MinCells THEN <<>>
    ELSE IF first_link_id(cells[1]) = <<>> THEN <<>>
    ELSE << book_info(first_link_id(cells[1])[1], cells) >>

\* the loop over the rows: books.push(book) for every Some(book)
RECURSIVE push_rows(_, _, _)
push_rows(rows, k, books) ==
    IF k > Len(rows) THEN books
    ELSE push_rows(rows, k + 1, books \o parse_search_result_row(rows[k]))

\* parse_search_results
parse_search_results(table) ==
    [kind |-> "Ok",
     books |-> IF table = <<>> THEN <<>> ELSE push_rows(table[1], 1, <<>>)]

\* the parser called before the page is searched for the marker text
search_books_unmarked(s) ==
    IF ~s.fetched THEN [kind |-> "ErrFetch", books |-> <<>>]
    ELSE parse_search_results(s.table)

\* search_books, from the result of network::html_get_page on
search_books(s) ==
    IF ~s.fetched THEN [kind |-> "ErrFetch", books |-> <<>>]
    ELSE IF s.nofiles THEN [kind |-> "ErrNoBooks", books |-> <<>>]
    ELSE parse_search_results(s.table)

\* the answer to the search request: no page, or a page with its first
\* table, which may contain the text "No files found."
SearchPage(fetched, nofiles, t) ==
    [state |-> "page", fetched |-> fetched, nofiles |-> nofiles, table |-> t,
     result |-> [kind |-> "", books |-> <<>>]]

\* a results page has been requested
InitSearch ==
    /\ \/ search = SearchPage(FALSE, FALSE, <<>>)
       \/ \E t \in Tables, m \in BOOLEAN : search = SearchPage(TRUE, m, t)
    /\ data = new(0)
    /\ clock = 0
    /\ op = Call("new", "", "", NoRec, -1, -1, EmptyMap, {})
    /\ ret = RetUnit
    /\ pc = Idle /\ mutex = 0
    /\ download = Idle /\ page = Idle

\* parse_search_results(&html) on a page
ParseSearchResults ==
    /\ search.state = "page"
    /\ search.fetched
    /\ search' = [search EXCEPT !.state = "parsed",
                                !.result = parse_search_results(search.table)]
    /\ UNCHANGED <<queueVars, threadVars, download, page>>

\* search_books(query, base_url)
SearchBooks ==
    /\ search.state = "page"
    /\ search' = [search EXCEPT !.state = "searched",
                                !.result = search_books(search)]
    /\ UNCHANGED <<queueVars, threadVars, download, page>>

NextSearch ==
    \/ ParseSearchResults
    \/ SearchBooks

SpecSearch == InitSearch /\ [][NextSearch]_vars

\* the rows of the page
SearchRows == IF search.table = <<>> THEN <<>> ELSE search.table[1]

\* some anchor of the row's first cell has an href
AnyAnchorHref(r) == \E j \in 1..Len(r[1].anchors) : r[1].anchors[j] # <<>>

\* the first anchor of the row's first cell has an href
FirstAnchorHref(r) == r[1].anchors # <<>> /\ r[1].anchors[1] # <<>>

\* the rows among the first j that count, for a notion of a usable first cell
Counted(j, Usable(_)) ==
    {m \in 1..j : Len(SearchRows[m]) >= MinCells /\ Usable(SearchRows[m])}

\* the books are the counted rows in document order, and no error is returned
OnePerRow(Usable(_)) ==
    search.state = "parsed" =>
        /\ search.result.kind = "Ok"
        /\ Len(search.result.books) = Cardinality(Counted(Len(SearchRows), Usable))
        /\ \A j \in Counted(Len(SearchRows), Usable) :
              search.result.books[Cardinality(Counted(j, Usable))].id =
                    last_segment(SearchRows[j][1].anchors[1][1])

\* C20 as stated: one record per row with at least eleven cells whose first
\* cell contains an anchor with an href, in document order; other rows are
\* skipped without error and a table without rows gives the empty list.
C20_Original == OnePerRow(AnyAnchorHref)

\* C20 amended: one record per row with at least eleven cells whose first
\* cell's first anchor has an href, in document order, with the last path
\* segment of that href as id; other rows are skipped without error, and a
\* table without rows, or a page without table, gives the empty list.
C20_OnePerValidRow ==
    /\ OnePerRow(FirstAnchorHref)
    /\ (search.state = "parsed" /\ SearchRows = <<>>) =>
            search.result = [kind |-> "Ok", books |-> <<>>]

\* C20 witness: a page of MaxRows rows where a row was skipped (short, or
\* without a usable first anchor) and the last row gave the only record
C20_Witness ==
    /\ search.state = "parsed"
    /\ Len(SearchRows) = MaxRows
    /\ ~(Len(SearchRows[1]) >= MinCells /\ FirstAnchorHref(SearchRows[1]))
    /\ AnyAnchorHref(SearchRows[1])
    /\ Len(search.result.books) = 1
    /\ search.result.books[1].id = "a"

\* C18: every record produced by an extraction has a non-empty title.
C18_TitleNonEmpty ==
    search.state = "parsed" =>
        \A i \in 1..Len(search.result.books) : search.result.books[i].title # ""

\* the text nodes of a cell joined in order
RECURSIVE concat(_)
concat(texts) == IF texts = <<>> THEN "" ELSE texts[1] \o concat(Tail(texts))

\* the book made from row j of the page
BookOfRow(j) == search.result.books[Cardinality(Counted(j, FirstAnchorHref))]

\* C21: each of title, author, publisher, year, language, format and size of
\* a record is the concatenation of all text nodes of its cell (cells 1, 2,
\* 3, 4, 7, 9, 10 counted from 0).
C21_FieldsConcatenated ==
    search.state = "parsed" =>
        \A j \in Counted(Len(SearchRows), FirstAnchorHref) :
            /\ BookOfRow(j).title = concat(SearchRows[j][2].texts)
            /\ BookOfRow(j).author = <<concat(SearchRows[j][3].texts)>>
            /\ BookOfRow(j).publisher = <<concat(SearchRows[j][4].texts)>>
            /\ BookOfRow(j).year = <<concat(SearchRows[j][5].texts)>>
            /\ BookOfRow(j).language = <<concat(SearchRows[j][8].texts)>>
            /\ BookOfRow(j).format = <<concat(SearchRows[j][10].texts)>>
            /\ BookOfRow(j).size = <<concat(SearchRows[j][11].texts)>>

\* C25: a fetched page that contains the text "No files found." makes
\* search_books fail with the not-found error and without any record,
\* whatever rows the page holds.
C25_NoFilesFound ==
    (search.state = "searched" /\ search.fetched /\ search.nofiles) =>
        search.result = [kind |-> "ErrNoBooks", books |-> <<>>]

\* C25 witness: search_books failed on a page with the marker text whose
\* table has a row the parser would turn into a record
C25_Witness ==
    /\ search.state = "searched"
    /\ search.nofiles
    /\ search.result.kind = "ErrNoBooks"
    /\ Len(parse_search_results(search.table).books) > 0

\* ---------------------------------------------------------------------
\* book_manager::parse_book_info_page: the record of one detail page.
\* ---------------------------------------------------------------------

\* most divs inside the primary container
MaxDivs == 6

\* position used when no div holds the marker: .unwrap_or(3)
FallbackDiv == 3

\* divs after the anchor that are not metadata: &divs[start_div_id + 3..]
MetadataOffset == 3

\* a div inside the container: its concatenated text, and whether one of
\* its text nodes contains the marker glyph
Divs ==
    {[text |-> "", marker |-> FALSE],
     [text |-> "Title", marker |-> FALSE],
     [text |-> "Title", marker |-> TRUE]}

\* a page: whether "body > main > div" matches, and the divs it contains
Pages ==
    {[main |-> FALSE, divs |-> <<>>]}
        \cup {[main |-> TRUE, divs |-> ds] :
                ds \in UNION {[1..n -> Divs] : n \in 0..MaxDivs}}

\* divs.iter().position(|div| div.text().any(..contains(marker)))
position(divs) ==
    IF \E j \in 1..Len(divs) : divs[j].marker
    THEN <<(CHOOSE j \in 1..Len(divs) :
                /\ divs[j].marker
                /\ \A m \in 1..(j - 1) : ~divs[m].marker) - 1>>
    ELSE <<>>

\* Vec::get with an index counted from 0; an index that wrapped around
\* below 0 is the largest usize and past the end of every Vec
get(divs, i) == IF i >= 0 /\ i < Len(divs) THEN <<divs[i + 1]>> ELSE <<>>

\* .map(|div| div.text().concat()).unwrap_or_default()
text_or_default(o) == IF o = <<>> THEN "" ELSE o[1].text

\* parse_book_info_page; checks tells whether the build traps on integer
\* overflow (debug) or wraps (release)
parse_book_info_page(pg, book_id, checks) ==
    IF ~pg.main THEN [kind |-> "Err", book |-> NoRec]
    ELSE LET start_div_id ==
                IF position(pg.divs) = <<>> THEN FallbackDiv
                ELSE position(pg.divs)[1]
         IN  IF start_div_id = 0 /\ checks
                THEN [kind |-> "panic", book |-> NoRec]
             ELSE IF start_div_id + MetadataOffset > Len(pg.divs)
                THEN [kind |-> "panic", book |-> NoRec]
             ELSE [kind |-> "Ok",
                   book |-> [id |-> book_id,
                             title |-> text_or_default(get(pg.divs, start_div_id))]]

\* get_book_info, from the result of network::html_get_page on
get_book_info(pg, checks) ==
    IF ~pg.fetched THEN [kind |-> "Err", book |-> NoRec]
    ELSE parse_book_info_page(pg.html, pg.book_id, checks)

\* the bool returned by backend::queue_book
RetBool(b) == [kind |-> "bool", next |-> <<>>, groups |-> <<>>, value |-> b]

\* a call that ended in a panic returns nothing
RetPanic == [kind |-> "panic", next |-> <<>>, groups |-> <<>>]

\* the queue when the request arrives: empty, or holding a job in download
QueuesAtRequest ==
    {new(0),
     update_status(add(new(0), "a", [id |-> "a", title |-> "Title"], 0),
                   "a", "Downloading", 0)}

\* the answer to the request for the detail page of a book id: no page, or
\* a page
InitInfo ==
    /\ \E i \in Ids :
        \/ page = [state |-> "page", fetched |-> FALSE,
                   html |-> [main |-> FALSE, divs |-> <<>>], book_id |-> i,
                   result |-> [kind |-> "", book |-> NoRec]]
        \/ \E pg \in Pages :
             page = [state |-> "page", fetched |-> TRUE, html |-> pg,
                     book_id |-> i, result |-> [kind |-> "", book |-> NoRec]]
    /\ data \in QueuesAtRequest
    /\ clock = 0
    /\ op = Call("new", "", "", NoRec, -1, -1, EmptyMap, {})
    /\ ret = RetUnit
    /\ pc = Idle /\ mutex = 0
    /\ download = Idle /\ search = Idle

\* parse_book_info_page(&html, book_id) on a page
ParseBookInfoPage ==
    /\ page.state = "page"
    /\ page.fetched
    /\ \E checks \in BOOLEAN :
          page' = [page EXCEPT
                     !.state = "parsed",
                     !.result = parse_book_info_page(page.html, page.book_id, checks)]
    /\ UNCHANGED <<queueVars, threadVars, download, search>>

\* backend::queue_book(book_id): get_book_info, then BOOK_QUEUE.add
QueueBook ==
    /\ page.state = "page"
    /\ \E checks \in BOOLEAN :
        LET r == get_book_info(page, checks)
        IN  /\ page' = [page EXCEPT !.state = "queued", !.result = r]
            /\ IF r.kind = "Ok"
                 THEN /\ data' = add(data, page.book_id, r.book, clock)
                      /\ op' = Call("add", page.book_id, "", r.book, -1, clock,
                                    data.status, {})
                      /\ ret' = RetBool(TRUE)
               ELSE IF r.kind = "Err"
                 THEN /\ ret' = RetBool(FALSE)
                      /\ UNCHANGED <<data, op>>
               ELSE /\ ret' = RetPanic
                    /\ UNCHANGED <<data, op>>
    /\ UNCHANGED <<clock, threadVars, download, search>>

NextInfo ==
    \/ ParseBookInfoPage
    \/ QueueBook

SpecInfo == InitInfo /\ [][NextInfo]_vars

\* C19: detail-page extraction ends with a record or a ParseFailure for
\* every page, never with a panic.
C19_NeverPanics ==
    page.state = "parsed" => page.result.kind \in {"Ok", "Err"}

\* C22: queue_book(id) returns true exactly when fetching and extracting
\* the record succeeded, and then the job of id is in the table, Queued and
\* pending; otherwise it returns false and the queue is unchanged.
C22_QueueBookResult ==
    [][ (page.state = "page" /\ page'.state = "queued") =>
            /\ ret'.kind = "bool"
            /\ ret'.value = (page'.result.kind = "Ok")
            /\ ret'.value =>
                  /\ page.book_id \in data'.queue
                  /\ page.book_id \in DOMAIN data'.book_data
                  /\ page.book_id \in DOMAIN data'.status
                  /\ data'.status[page.book_id] = "Queued"
            /\ ~ret'.value => data' = data ]_vars

\* ---------------------------------------------------------------------
\* book_manager::extract_book_metadata: the attribute bag of a detail page,
\* and the language and year taken from it.
\* ---------------------------------------------------------------------

\* most blocks in the metadata section of a page
MaxBlocks == 2

\* a node of the parsed document: a text node or an element with its body
TextNode(str) == [kind |-> "text", tag |-> "", s |-> str, body |-> <<>>]

Element(tag, body) == [kind |-> "el", tag |-> tag, s |-> "", body |-> body]

\* ElementRef::text(): the text nodes below a node, in document order
RECURSIVE text(_)
RECURSIVE text_all(_)
text(n) == IF n.kind = "text" THEN <<n.s>> ELSE text_all(n.body)

text_all(body) ==
    IF body = <<>> THEN <<>> ELSE text(body[1]) \o text_all(Tail(body))

\* ElementRef::select(tag): the elements below a node with that tag, in
\* document order, the node itself left out
RECURSIVE select_in(_, _)
select_in(body, tag) ==
    IF body = <<>> THEN <<>>
    ELSE (IF body[1].kind = "el"
            THEN (IF body[1].tag = tag THEN <<body[1]>> ELSE <<>>)
                    \o select_in(body[1].body, tag)
            ELSE <<>>)
         \o select_in(Tail(body), tag)

select(n, tag) == select_in(n.body, tag)

\* str::trim on the texts of the pages
trim(str) == IF str = " en " THEN "en" ELSE str

\* info.entry(key).or_insert_with(Vec::new).push(value)
push(info, key, value) ==
    IF key \in DOMAIN info THEN [info EXCEPT ![key] = Append(@, value)]
    ELSE MapInsert(info, key, <<value>>)

\* Iterator::next / nth as an Option
nth(seq, k) == IF k < Len(seq) THEN <<seq[k + 1]>> ELSE <<>>

\* for i in (0..sub_data.len()).step_by(2): key and value from two divs
RECURSIVE div_pairs(_, _, _)
div_pairs(info, sub_data, i) ==
    IF i >= Len(sub_data) THEN info
    ELSE LET key == nth(text(sub_data[i + 1]), 0)
             value == IF i + 1 < Len(sub_data)
                        THEN nth(text(sub_data[i + 2]), 0) ELSE <<>>
         IN  div_pairs(IF key # <<>> /\ value # <<>>
                         THEN push(info, trim(key[1]), trim(value[1]))
                         ELSE info,
                       sub_data, i + 2)

\* for span in spans.select(span).step_by(2): key and value from one span
RECURSIVE span_pairs(_, _, _)
span_pairs(info, spans, i) ==
    IF i >= Len(spans) THEN info
    ELSE LET key == nth(text(spans[i + 1]), 0)
             value == nth(text(spans[i + 1]), 1)
         IN  span_pairs(push(info,
                             trim(IF key = <<>> THEN "" ELSE key[1]),
                             trim(IF value = <<>> THEN "" ELSE value[1])),
                        spans, i + 2)

\* the body of the loop over metadata_divs for one div
metadata_of_div(info, div) ==
    LET after_divs == div_pairs(info, select(div, "div"), 0)
        first_span == nth(select(div, "span"), 0)
    IN  IF first_span = <<>> THEN after_divs
        ELSE span_pairs(after_divs, select(first_span[1], "span"), 0)

\* extract_book_metadata
RECURSIVE extract_from(_, _, _)
extract_from(info, metadata_divs, k) ==
    IF k > Len(metadata_divs) THEN info
    ELSE extract_from(metadata_of_div(info, metadata_divs[k]), metadata_divs, k + 1)

extract_book_metadata(metadata_divs) == extract_from(EmptyMap, metadata_divs, 1)

\* info.get(key).and_then(|v| v.get(0)) as an Option
first_value(info, key) ==
    IF key \in DOMAIN info THEN nth(info[key], 0) ELSE <<>>

\* the end of parse_book_info_page: the bag, then language and year
metadata_fields(metadata_divs) ==
    LET info == extract_book_metadata(metadata_divs)
    IN  [info |-> info,
         language |-> first_value(info, "Language"),
         year |-> first_value(info, "Year")]

\* the ways a page lays out one block of its metadata section
Shapes == {"divs", "wrapped", "spans", "plain"}

MetadataKeys == {"Language", "Year"}

MetadataValues == {"en", " en ", "1954"}

\* a block: its layout, and the key and value it shows
Blocks == [shape : Shapes, key : MetadataKeys, value : MetadataValues]

\* the elements of a block
Render(b) ==
    CASE b.shape = "divs" ->
            Element("div", << Element("div", <<TextNode(b.key)>>),
                              Element("div", <<TextNode(b.value)>>) >>)
      [] b.shape = "wrapped" ->
            Element("div",
                << Element("div", << Element("div", <<TextNode(b.key)>>),
                                     Element("div", <<TextNode(b.value)>>) >>) >>)
      [] b.shape = "spans" ->
            Element("div",
                << Element("span",
                      << Element("span", << TextNode(b.key),
                                            Element("b", <<TextNode(b.value)>>) >>) >>) >>)
      [] b.shape = "plain" ->
            Element("div", <<TextNode(b.value)>>)

\* the part of the container after the author div
Section(blocks) == Element("main", [j \in 1..Len(blocks) |-> Render(blocks[j])])

\* a detail page has been parsed up to its metadata section
InitMetadata ==
    /\ \E blocks \in UNION {[1..n -> Blocks] : n \in 0..MaxBlocks} :
          page = [state |-> "section", blocks |-> blocks,
                  result |-> [info |-> EmptyMap, language |-> <<>>, year |-> <<>>]]
    /\ data = new(0)
    /\ clock = 0
    /\ op = Call("new", "", "", NoRec, -1, -1, EmptyMap, {})
    /\ ret = RetUnit
    /\ pc = Idle /\ mutex = 0
    /\ download = Idle /\ search = Idle

\* extract_book_metadata(&divs[start_div_id + 3..]) and the promotion of
\* language and year
ExtractBookMetadata ==
    /\ page.state = "section"
    /\ page' = [page EXCEPT
                  !.state = "extracted",
                  !.result = metadata_fields(select(Section(page.blocks), "div"))]
    /\ UNCHANGED <<queueVars, threadVars, download, search>>

NextMetadata == ExtractBookMetadata

SpecMetadata == InitMetadata /\ [][NextMetadata]_vars

\* the values a page shows under a key, in document order
RECURSIVE ShownValues(_, _)
ShownValues(blocks, key) ==
    IF blocks = <<>> THEN <<>>
    ELSE (IF blocks[1].shape # "plain" /\ blocks[1].key = key
            THEN <<trim(blocks[1].value)>> ELSE <<>>)
         \o ShownValues(Tail(blocks), key)

\* C26: the attribute bag maps every key the page shows k times to the
\* list of its k values in document order, and to nothing else; language
\* and year are the first values under Language and Year, or are absent.
C26_BagInOrder ==
    page.state = "extracted" =>
        /\ DOMAIN page.result.info =
                {k \in MetadataKeys : ShownValues(page.blocks, k) # <<>>}
        /\ \A k \in DOMAIN page.result.info :
                page.result.info[k] = ShownValues(page.blocks, k)
        /\ page.result.language = nth(ShownValues(page.blocks, "Language"), 0)
        /\ page.result.year = nth(ShownValues(page.blocks, "Year"), 0)

\* ---------------------------------------------------------------------
\* A finished job left alone: the queue is polled while time passes.
\* ---------------------------------------------------------------------

\* the instants of a run that outlasts every timeout
PurgeInstants == {k * SecsPerHour : k \in 0..(MaxHours + 1)}

\* the job that is Done and gets no further add or update_status
PurgeId == "a"

\* the queue after add and update_status(.., Done) of the job at instant 0,
\* alone or next to another job in any status
PurgeQueues ==
    LET r(i) == [id |-> i, title |-> "Title"]
        one(c) == update_status(add(new(c), PurgeId, r(PurgeId), 0), PurgeId, "Done", 0)
    IN  {one(c) : c \in ConfigTimeouts}
            \cup {update_status(add(one(c), "b", r("b"), 0), "b", st, 0) :
                    c \in ConfigTimeouts, st \in QueueStatus}

InitPurge ==
    /\ data \in PurgeQueues
    /\ clock = 0
    /\ op = Call("update_status", PurgeId, "Done", NoRec, -1, 0,
                 [x \in {PurgeId} |-> "Queued"], {})
    /\ ret = RetUnit
    /\ pc = Idle /\ mutex = 0
    /\ download = Idle /\ search = Idle /\ page = Idle

\* time passes
TickPurge ==
    /\ \E t \in PurgeInstants : t > clock /\ clock' = t
    /\ UNCHANGED <<data, op, ret>>
    /\ UNCHANGED <<threadVars, managerVars>>

NextPurge ==
    \/ GetNext
    \/ Refresh
    \/ GetStatus
    \/ SetStatusTimeoutStep
    \/ TickPurge

\* time keeps passing and the queue keeps being refreshed
SpecPurge ==
    InitPurge /\ [][NextPurge]_vars /\ WF_vars(TickPurge) /\ WF_vars(Refresh)

\* the job is in the table, Done, and older than the timeout
Stale(i) ==
    /\ i \in DOMAIN data.status
    /\ data.status[i] = "Done"
    /\ clock - data.status_timestamps[i] > data.status_timeout

Promoted(i) ==
    /\ RefreshStep
    /\ i \in DOMAIN data.status /\ data.status[i] = "Available"
    /\ i \in DOMAIN data'.status /\ data'.status[i] = "Done"

\* C24: add, update_status of a known identifier (also to the status it
\* has) and the Available-to-Done move of refresh write the time of the
\* operation as the job's timestamp, and nothing else changes a timestamp.
C24_StatusWriteStamps ==
    [][ /\ IsAdd => data'.status_timestamps[op'.id] = clock
        /\ (IsUpdateStatus /\ op'.id \in DOMAIN data.status) =>
                data'.status_timestamps[op'.id] = clock
        /\ \A i \in DOMAIN data.status :
                Promoted(i) =>
                    /\ data'.status_timestamps[i] >= clock
                    /\ data'.status_timestamps[i] <= clock'
        /\ \A i \in DOMAIN data.status_timestamps :
                (/\ i \in DOMAIN data'.status_timestamps
                 /\ data'.status_timestamps[i] # data.status_timestamps[i]) =>
                    \/ op'.name \in {"add", "update_status"} /\ op'.id = i
                    \/ Promoted(i) ]_vars

\* C24 witness: update_status wrote the status the job already had, at a
\* later instant, and the timestamp is that instant
C24_Witness ==
    /\ op.name = "update_status"
    /\ op.id \in DOMAIN op.pre
    /\ op.pre[op.id] = op.status
    /\ clock > 0
    /\ data.status_timestamps[op.id] = clock

\* C27: a job that a refresh moves from Available to Done is in the table
\* when that refresh returns, Done, with its record and with a timestamp
\* read during the refresh, whatever its age was.
C27_PromotedNotEvicted ==
    [][ RefreshStep =>
            \A i \in DOMAIN data.status :
                (data.status[i] = "Available" /\ i \notin op'.files) =>
                    /\ i \in DOMAIN data'.status
                    /\ data'.status[i] = "Done"
                    /\ i \in DOMAIN data'.book_data
                    /\ data'.book_data[i] = data.book_data[i]
                    /\ data'.status_timestamps[i] >= clock ]_vars

\* C27 witness: one refresh, made later than the timeout after both jobs'
\* last status write, removed the Done job and kept the job it moved from
\* Available to Done
C27_Witness ==
    /\ op.name = "refresh"
    /\ PurgeId \in DOMAIN op.pre
    /\ PurgeId \notin DOMAIN data.status
    /\ "b" \in DOMAIN op.pre
    /\ op.pre["b"] = "Available"
    /\ "b" \in DOMAIN data.status
    /\ data.status["b"] = "Done"
    /\ op.now > data.status_timeout

\* job i is the same in both states: status, record, timestamp and
\* membership in the pending set
SameJob(i, d, e) ==
    /\ i \in DOMAIN e.status /\ e.status[i] = d.status[i]
    /\ i \in DOMAIN e.book_data /\ e.book_data[i] = d.book_data[i]
    /\ i \in DOMAIN e.status_timestamps
    /\ e.status_timestamps[i] = d.status_timestamps[i]
    /\ (i \in e.queue) = (i \in d.queue)

\* C28: a refresh leaves the timeout and every job as they are, except the
\* Available jobs without artifact and the Done jobs it removes; and a
\* Downloading job stays Downloading through refresh, get_status, get_next
\* and set_status_timeout.
C28_RefreshFrame ==
    [][ /\ RefreshStep =>
            /\ data'.status_timeout = data.status_timeout
            /\ DOMAIN data'.status \subseteq DOMAIN data.status
            /\ data'.queue \subseteq data.queue
            /\ \A i \in DOMAIN data.status :
                  \/ data.status[i] = "Available" /\ i \notin op'.files
                  \/ data.status[i] = "Done" /\ i \notin DOMAIN data'.status
                  \/ SameJob(i, data, data')
            /\ \A i \in DOMAIN data.status :
                  data.status[i] \in {"Queued", "Downloading", "Error"} =>
                        SameJob(i, data, data')
        /\ (RefreshStep \/ IsGetNext \/ IsSetStatusTimeout) =>
            \A i \in DOMAIN data.status :
                data.status[i] = "Downloading" =>
                    /\ i \in DOMAIN data'.status
                    /\ data'.status[i] = "Downloading" ]_vars

\* C28 witness: a refresh removed a Done job and left a Downloading job
\* that is older than the timeout, with its old timestamp
C28_Witness ==
    /\ op.name = "refresh"
    /\ \E i, k \in DOMAIN op.pre :
          /\ k \notin DOMAIN data.status
          /\ op.pre[i] = "Downloading"
          /\ i \in DOMAIN data.status
          /\ data.status[i] = "Downloading"
          /\ op.now - data.status_timestamps[i] > data.status_timeout

\* C29: the status table, the record table and the timestamp table hold
\* the same identifiers and the pending set holds only identifiers of the
\* tables; so the snapshot lists every job of the table, and an identifier
\* just returned by get_next has a job.
C29_TablesAgree ==
    /\ DOMAIN data.status = DOMAIN data.book_data
    /\ DOMAIN data.status = DOMAIN data.status_timestamps
    /\ data.queue \subseteq DOMAIN data.status
    /\ \A i \in DOMAIN data.status : GroupsOf(snapshot(data), i) = {data.status[i]}
    /\ (op.name = "get_next" /\ ret.next # <<>>) => ret.next[1] \in DOMAIN data.status

\* C29 witness: after a removal by refresh the tables hold the same single
\* identifier, which is not pending
C29_Witness ==
    /\ op.name = "refresh"
    /\ \E k \in DOMAIN op.pre : k \notin DOMAIN data.status
    /\ Cardinality(DOMAIN data.status) = 1
    /\ DOMAIN data.book_data = DOMAIN data.status
    /\ DOMAIN data.status_timestamps = DOMAIN data.status
    /\ data.queue = {}

\* ---------------------------------------------------------------------
\* One thread adds books while two threads claim them with get_next.
\* ---------------------------------------------------------------------

\* most add calls of the adding thread
MaxAdds == 2

\* most get_next calls of each claiming thread
MaxClaims == 2

\* the adding thread and the claiming threads
Producer == 1

Consumers == {2, 3}

\* the identifiers the adding thread uses
AddIds == {ThreadBookIds[1], ThreadBookIds[2]}

\* the calls of the adding thread: up to MaxAdds adds, same id or not
AddPrograms ==
    UNION {[1..n -> {ThreadCall("add", i, "", -1) : i \in AddIds}] : n \in 1..MaxAdds}

\* the calls of a claiming thread
ClaimPrograms ==
    {[j \in 1..n |-> ThreadCall("get_next", "", "", -1)] : n \in 1..MaxClaims}

\* a thread with its calls, the number it has finished and the identifiers
\* its get_next calls returned
Worker(prog) ==
    [state |-> "ready", i |-> 0, call |-> ThreadCall("", "", "", -1),
     seen |-> new(0), prog |-> prog, got |-> <<>>]

InitWorkers ==
    /\ data = new(0)
    /\ clock = 0
    /\ op = Call("new", "", "", NoRec, -1, -1, EmptyMap, {})
    /\ ret = RetUnit
    /\ \E a \in AddPrograms, c \in ClaimPrograms :
          pc = [t \in {Producer} \cup Consumers |->
                    IF t = Producer THEN Worker(a) ELSE Worker(c)]
    /\ mutex = 0
    /\ download = Idle /\ search = Idle /\ page = Idle

\* self.data.lock().unwrap() at the start of the thread's next call
LockWorker(t) ==
    /\ pc[t].state = "ready"
    /\ pc[t].i < Len(pc[t].prog)
    /\ lock(mutex)
    /\ pc' = [pc EXCEPT ![t].state = "locked", ![t].call = pc[t].prog[pc[t].i + 1]]
    /\ mutex' = t
    /\ UNCHANGED <<queueVars, managerVars>>

\* the body writes the tables; the thread keeps what get_next returned
WriteWorker(t) ==
    /\ pc[t].state = "read"
    /\ \E e \in Effects(pc[t].call, pc[t].seen, clock) :
          /\ data' = e[1]
          /\ ret' = e[2]
          /\ pc' = [pc EXCEPT ![t].state = "written",
                              ![t].got = pc[t].got \o e[2].next]
    /\ op' = Call(pc[t].call.name, pc[t].call.id, pc[t].call.status,
                  IF pc[t].call.name = "add" THEN ThreadRecord ELSE NoRec,
                  pc[t].call.hours, clock, pc[t].seen.status, {})
    /\ UNCHANGED <<clock, mutex, managerVars>>

\* the call returns and the guard is dropped
UnlockWorker(t) ==
    /\ pc[t].state = "written"
    /\ mutex' = unlock(mutex)
    /\ pc' = [pc EXCEPT ![t].i = pc[t].i + 1,
                        ![t].state = IF pc[t].i + 1 = Len(pc[t].prog)
                                       THEN "done" ELSE "ready"]
    /\ UNCHANGED <<queueVars, managerVars>>

LockWorkerStep == \E t \in DOMAIN pc : LockWorker(t)

ReadWorkerStep == \E t \in DOMAIN pc : Read(t)

WriteWorkerStep == \E t \in DOMAIN pc : WriteWorker(t)

UnlockWorkerStep == \E t \in DOMAIN pc : UnlockWorker(t)

NextWorkers ==
    \/ LockWorkerStep
    \/ ReadWorkerStep
    \/ WriteWorkerStep
    \/ UnlockWorkerStep

SpecWorkers == InitWorkers /\ [][NextWorkers]_vars

\* the add(i, _) calls that have written the tables
Added(i) ==
    Cardinality({k \in 1..Len(pc[Producer].prog) :
        /\ pc[Producer].prog[k].id = i
        /\ \/ k <= pc[Producer].i
           \/ k = pc[Producer].i + 1 /\ pc[Producer].state = "written"})

\* the get_next calls that have returned i
Handed(i) ==
    Cardinality({<<t, k>> \in Consumers \X (1..MaxClaims) :
        k <= Len(pc[t].got) /\ pc[t].got[k] = i})

\* C30: the get_next calls that returned i are never more than the add(i, _)
\* calls made, an identifier still pending included; an identifier that
\* get_next returns was pending and is not pending after the call, however
\* many adds preceded.
C30_ClaimedOncePerAdd ==
    /\ [](\A i \in AddIds :
            Handed(i) + (IF i \in data.queue THEN 1 ELSE 0) <= Added(i))
    /\ [][ \A t \in Consumers :
            (WriteWorker(t) /\ ret'.next # <<>>) =>
                /\ ret'.next[1] \in data.queue
                /\ ret'.next[1] \notin data'.queue ]_vars

\* C30 witness: two adds of one identifier, and of the claiming threads'
\* four get_next calls exactly one returned it
C30_Witness ==
    /\ \A t \in DOMAIN pc : pc[t].state = "done"
    /\ Len(pc[Producer].prog) = MaxAdds
    /\ \E i \in AddIds :
          /\ \A k \in 1..MaxAdds : pc[Producer].prog[k].id = i
          /\ Handed(i) = 1
          /\ i \notin data.queue
    /\ \A t \in Consumers : Len(pc[t].prog) = MaxClaims

\* ---------------------------------------------------------------------
\* set_status_timeout over the whole range of its u64 argument.  A u64 is
\* kept as four 16-bit limbs, least significant first, so that
\* `hours * 3600` is computed at its real width.
\* ---------------------------------------------------------------------

\* one limb holds 16 bits; a u64 has four
Limb == 65536

Limbs == 4

\* the u64 of a number below 2^31
u64(n) == <<n % Limb, n \div Limb, 0, 0>>

\* u64::MAX
U64Max == <<Limb - 1, Limb - 1, Limb - 1, Limb - 1>>

\* the largest hours whose product with 3600 fits: u64::MAX / 3600
LastFitting == <<48351, 30874, 13398, 18>>

\* the smallest hours whose product with 3600 does not fit
FirstOverflowing == <<48352, 30874, 13398, 18>>

\* the mathematical product x * k: the four limbs, then the carry out of
\* the top limb (limb j onwards, with the carry from the limbs below)
RECURSIVE mul_from(_, _, _, _)
mul_from(x, k, j, carry) ==
    IF j > Limbs THEN <<carry>>
    ELSE LET p == x[j] * k + carry
         IN  <<p % Limb>> \o mul_from(x, k, j + 1, p \div Limb)

full_mul(x, k) == mul_from(x, k, 1, 0)

\* u64 multiplication: the low 64 bits, and whether the product left them
wrapping_mul(x, k) == SubSeq(full_mul(x, k), 1, Limbs)

overflows(x, k) == full_mul(x, k)[Limbs + 1] # 0

\* what `hours * 3600` evaluates to: the product when it fits; otherwise
\* a panic with overflow checks compiled in, the wrapped product without
mul_outcomes(hours) ==
    IF overflows(hours, SecsPerHour)
    THEN {[panic |-> TRUE, value |-> u64(0)],
          [panic |-> FALSE, value |-> wrapping_mul(hours, SecsPerHour)]}
    ELSE {[panic |-> FALSE, value |-> wrapping_mul(hours, SecsPerHour)]}

\* a timeout as refresh_internal compares it with an age: ages in the model
\* stay below 2^31 seconds, and `age > timeout` is false for every timeout
\* from 2^31 - 1 up
as_secs(ttl) ==
    IF ttl[3] = 0 /\ ttl[4] = 0 /\ ttl[2] < Limb \div 2
    THEN ttl[1] + ttl[2] * Limb
    ELSE 2147483647

\* the hours passed to set_status_timeout: small ones, and the ends of the
\* range where the product stops fitting
HourInputs ==
    {u64(h) : h \in 0..MaxHours} \cup {LastFitting, FirstOverflowing, U64Max}

\* Mutex<BookQueueData> after a thread panicked while holding the guard
Poisoned == -1

\* the methods of the queue
MethodNames ==
    {"add", "get_next", "update_status", "get_status", "refresh",
     "set_status_timeout"}

\* the queue with its timeout as a u64 of seconds
wide(d) == [d EXCEPT !.status_timeout = u64(d.status_timeout)]

\* refresh_internal on the queue with a u64 timeout
refresh_wide(d, now, stamp, fs) ==
    [refresh_internal([d EXCEPT !.status_timeout = as_secs(d.status_timeout)],
                      now, stamp, fs)
        EXCEPT !.status_timeout = d.status_timeout]

InitTimeout ==
    /\ data \in {wide(d) : d \in PurgeQueues}
    /\ clock = 0
    /\ op = Call("update_status", PurgeId, "Done", NoRec, -1, 0,
                 [x \in {PurgeId} |-> "Queued"], {})
    /\ ret = RetUnit
    /\ pc = Idle /\ mutex = 0
    /\ download = Idle /\ search = Idle /\ page = Idle

\* queue.set_status_timeout(hours): a panic in the multiplication unwinds
\* with the guard held, which poisons the mutex
SetStatusTimeoutWide ==
    /\ mutex = 0
    /\ \E hours \in HourInputs :
         /\ op' = Call("set_status_timeout", "", "", NoRec, hours, -1,
                       data.status, {})
         /\ \E m \in mul_outcomes(hours) :
               IF m.panic
               THEN /\ data' = data
                    /\ ret' = RetPanic
                    /\ mutex' = Poisoned
               ELSE /\ data' = [data EXCEPT !.status_timeout = m.value]
                    /\ ret' = RetUnit
                    /\ mutex' = mutex
    /\ UNCHANGED <<clock, pc, managerVars>>

\* queue.get_next() on a sound mutex
GetNextWide ==
    /\ mutex = 0
    /\ \/ /\ data.queue = {}
          /\ data' = data
          /\ ret' = RetNext(<<>>)
       \/ \E book_id \in data.queue :
            /\ data' = get_next(data, book_id)
            /\ ret' = RetNext(<<book_id>>)
    /\ op' = Call("get_next", "", "", NoRec, -1, -1, data.status, {})
    /\ UNCHANGED <<clock, threadVars, managerVars>>

\* queue.refresh() on a sound mutex
RefreshWide ==
    /\ mutex = 0
    /\ \E fs \in SUBSET Checked(data) :
        \E stamp \in [to_update(data, fs) -> {t \in PurgeInstants : t >= clock}] :
          /\ data' = refresh_wide(data, clock, stamp, fs)
          /\ clock' = LastRead(clock, stamp)
          /\ op' = Call("refresh", "", "", NoRec, -1, clock, data.status, fs)
          /\ ret' = RetUnit
    /\ UNCHANGED <<threadVars, managerVars>>

\* queue.get_status() on a sound mutex
GetStatusWide ==
    /\ mutex = 0
    /\ \E fs \in SUBSET Checked(data) :
        \E stamp \in [to_update(data, fs) -> {t \in PurgeInstants : t >= clock}] :
          /\ data' = refresh_wide(data, clock, stamp, fs)
          /\ clock' = LastRead(clock, stamp)
          /\ op' = Call("get_status", "", "", NoRec, -1, clock, data.status, fs)
          /\ ret' = RetStatus(snapshot(data'))
    /\ UNCHANGED <<threadVars, managerVars>>

\* any method called on a poisoned mutex: self.data.lock().unwrap() panics
CallPoisoned ==
    /\ mutex = Poisoned
    /\ \E name \in MethodNames :
          op' = Call(name, "", "", NoRec, -1, -1, data.status, {})
    /\ ret' = RetPanic
    /\ UNCHANGED <<data, clock, threadVars, managerVars>>

NextTimeout ==
    \/ SetStatusTimeoutWide
    \/ GetNextWide
    \/ RefreshWide
    \/ GetStatusWide
    \/ CallPoisoned
    \/ TickPurge

SpecTimeout == InitTimeout /\ [][NextTimeout]_vars

\* C31: every set_status_timeout(h) on the queue returns normally, leaves
\* the timeout at exactly h * 3600 seconds (the product fits the u64),
\* changes no other part of the queue, and no later call on the queue
\* fails.
C31_TimeoutTotal ==
    /\ [][ (op'.name = "set_status_timeout" /\ mutex = 0) =>
             /\ ret' = RetUnit
             /\ data'.status_timeout \o <<0>> = full_mul(op'.hours, SecsPerHour)
             /\ data'.queue = data.queue
             /\ data'.status = data.status
             /\ data'.book_data = data.book_data
             /\ data'.status_timestamps = data.status_timestamps ]_vars
    /\ [](ret.kind # "panic")

====
